---- MODULE Spec2Model ----
(***************************************************************************)
(* Model of package binary of tinkerbell-ipxedust: the embedded iPXE       *)
(* binaries, the Files map that names them, and Patch, which replaces the  *)
(* magic string of a binary by a caller's patch.                           *)
(*                                                                         *)
(* A []byte is modelled as a reference into a heap of byte arrays, so that *)
(* "the same slice" and "equal bytes" are different things, as in Go.      *)
(* Bytes are the integers 0..255, offsets are 0-based as in the source.    *)
(***************************************************************************)
EXTENDS Integers, Sequences, FiniteSets, TLC

VARIABLES
    heap,     \* reference -> the bytes of that backing array
    Files,    \* the package-level map: name -> reference
    pc,       \* per caller: where it is (idle, got, notfound, the lines of Patch, done, written)
    key,      \* per caller: the name it looked up
    got,      \* per caller: the slice the lookup returned
    content,  \* per call: Patch's parameter content (a reference)
    patch,    \* per call: Patch's parameter patch (bytes)
    i,        \* per call: Patch's local i
    dup,      \* per call: Patch's local dup (a reference)
    ret,      \* per call: the returned slice (a reference, or Nil)
    err,      \* per call: the returned error
    snap,     \* history: the bytes of content when the call was made
    calls     \* per caller: the number of requests it has finished

vars == <<heap, Files, pc, key, got, content, patch, i, dup, ret, err, snap, calls>>

(***************************************************************************)
(* Bounds of the model.                                                    *)
(***************************************************************************)
\* Concurrent callers of Patch.
NumProcs == 2
\* A content passed to Patch is a concatenation of at most MaxPieces pieces.
MaxPieces == 3
\* Patches have the lengths 0..MaxShort and len(magicString)..len(magicString)+MaxExcess.
MaxShort == 2
MaxExcess == 1
\* Requests (lookup, Patch, write) one caller makes one after the other.
MaxCalls == 2

Procs == 1..NumProcs

\* The caller of the specifications that have only one.
Caller == CHOOSE p \in Procs : \A q \in Procs : p <= q

Min2(a, b) == IF a <= b THEN a ELSE b

(***************************************************************************)
(* The package-level data.                                                 *)
(***************************************************************************)
\* var magicString = []byte(`#a8b7...8881\n#ddd1...7f97`)
magicString ==
  << 35, 97, 56, 98, 55, 101, 54, 49, 102, 49, 48, 55, 53, 99, 51, 55, 97, 55, 57, 51, 102, 50,
     102, 57, 50, 99, 101, 101, 56, 57, 102, 55, 98, 98, 97, 48, 48, 99, 52, 97, 56, 100, 55, 56,
     52, 50, 99, 101, 51, 100, 52, 48, 98, 53, 56, 56, 57, 48, 51, 50, 100, 56, 56, 56, 49, 10,
     35, 100, 100, 100, 49, 54, 97, 52, 102, 99, 52, 57, 50, 54, 101, 99, 101, 102, 100, 102, 98, 54,
     57, 52, 49, 101, 51, 51, 99, 52, 52, 101, 100, 51, 54, 52, 55, 49, 51, 51, 54, 51, 56, 102,
     53, 101, 56, 52, 48, 50, 49, 101, 97, 52, 52, 100, 51, 49, 53, 50, 101, 55, 102, 57, 55 >>

\* The byte of magicStringPadding: ' '.
PaddingByte == 32

\* var magicStringPadding = bytes.Repeat([]byte{' '}, len(magicString))
magicStringPadding == [k \in 1..Len(magicString) |-> PaddingByte]

\* var ErrPatchTooLong = errors.New("patch string is too long")
ErrPatchTooLong == "patch string is too long"

\* The nil error.
NoErr == "nil"

\* References: <<"embed", k>> is the backing array of the k-th embedded
\* variable, <<"arg", 0>> an array the caller owns, <<"dup", p>> the array
\* that make() gives the call of caller p, and Nil the nil slice.
Nil == <<"nil", 0>>
ArgBuf == <<"arg", 0>>

\* The entries of the Files map literal, in source order: the key and the
\* embedded variable it is bound to.
FileEntries ==
  << [name |-> "undionly.kpxe",            var |-> "Undionly"],
     [name |-> "ipxe.efi",                 var |-> "IpxeEFI"],
     [name |-> "snp.efi",                  var |-> "SNP"],
     [name |-> "ipxe.iso",                 var |-> "IpxeISO"],
     [name |-> "rk3588-rock-5b.dtb",       var |-> "DTBRock5b"],
     [name |-> "rk3566-orangepi-3b.dtb",   var |-> "DTBOrangePi3b"],
     [name |-> "meson-sm1-odroid-hc4.dtb", var |-> "DTBOdroidHC4"] >>

EmbedRefs == {<<"embed", k>> : k \in 1..Len(FileEntries)}

\* Files with the entry of ipxe.iso left out.
FilesWithoutISO ==
  [n \in {FileEntries[k].name : k \in 1..Len(FileEntries)} \ {"ipxe.iso"} |->
      <<"embed", CHOOSE k \in 1..Len(FileEntries) : FileEntries[k].name = n>>]

\* var Files = map[string][]byte{...}
FilesInit ==
  [n \in {FileEntries[k].name : k \in 1..Len(FileEntries)} |->
      <<"embed", CHOOSE k \in 1..Len(FileEntries) : FileEntries[k].name = n>>]

\* The bytes //go:embed gives an embedded variable.  The binaries are not
\* part of the sources; what is known of them is that the iPXE binaries
\* carry the embedded script, which holds the magic string between two line
\* ends, and that the device trees carry no script.  The device trees are
\* stood for by the four bytes of the device tree magic number.
EmbeddedContent(k) ==
  IF FileEntries[k].var \in {"Undionly", "IpxeEFI", "SNP", "IpxeISO"}
  THEN <<10>> \o magicString \o <<10>>
  ELSE <<208, 13, 254, 237>>

\* One package-level buffer that every call uses for dup.
DupBufShared(p) == <<"dup", Caller>>

\* The array make() gives the call of caller p: no other call has it.
DupBuf(p) == <<"dup", p>>

Refs == EmbedRefs \cup {ArgBuf} \cup {DupBuf(p) : p \in Procs}

(***************************************************************************)
(* The inputs.                                                             *)
(***************************************************************************)
\* The pieces contents are made of: the magic string, the magic string
\* without its last byte, that last byte, and a byte the magic string
\* does not have ('x').
Pieces ==
  { magicString,
    SubSeq(magicString, 1, Len(magicString) - 1),
    <<magicString[Len(magicString)]>>,
    <<120>> }

RECURSIVE Concats(_)
Concats(n) ==
  IF n = 0 THEN {<<>>}
  ELSE LET shorter == Concats(n - 1)
       IN  shorter \cup {c \o q : c \in shorter, q \in Pieces}

ContentSet == Concats(MaxPieces)

\* A patch of n bytes, all of them capital letters, no two neighbours equal.
PatchOfLen(n) == [k \in 1..n |-> 65 + (k % 26)]

PatchLens == (0..MaxShort) \cup (Len(magicString)..(Len(magicString) + MaxExcess))

Patches == {PatchOfLen(n) : n \in PatchLens}

\* The bytes a caller writes into a buffer Patch returned: 'X', which is
\* neither in the magic string nor in the pieces.
WriteBytes == {88}

\* The names callers look up: the keys of Files and one that is no key.
LookupNames == {FileEntries[k].name : k \in 1..Len(FileEntries)} \cup {"no-such-file"}

\* The names the concurrent callers look up: a binary with the magic string
\* and one without.
ConcNames == {"ipxe.efi", "rk3588-rock-5b.dtb"}

(***************************************************************************)
(* Library functions.                                                      *)
(***************************************************************************)
\* bytes.LastIndex(s, sep) in the place of bytes.Index.
LastIndex(s, sep) ==
  LET n == Len(sep)
      at == {k \in 0..(Len(s) - n) :
               \A j \in 1..n : s[k + j] = sep[j]}
  IN  IF at = {} THEN -1
      ELSE CHOOSE k \in at : \A m \in at : k >= m

\* bytes.Index(s, sep): the index of the first instance of sep in s, or -1.
Index(s, sep) ==
  LET n == Len(sep)
      at == {k \in 0..(Len(s) - n) :
               \A j \in 1..n : s[k + j] = sep[j]}
  IN  IF at = {} THEN -1
      ELSE CHOOSE k \in at : \A m \in at : k <= m

\* copy(dst[off:], src): the bytes of dst after the copy.
Copy(dst, off, src) ==
  LET n == Min2(Len(dst) - off, Len(src))
  IN  [k \in 1..Len(dst) |->
         IF k > off /\ k <= off + n THEN src[k - off] ELSE dst[k]]

\* make([]byte, n)
Make(n) == [k \in 1..n |-> 0]

(***************************************************************************)
(* The initial states.                                                     *)
(***************************************************************************)
InitWith(arg) ==
  /\ heap = [r \in Refs |->
               IF r[1] = "embed" THEN EmbeddedContent(r[2])
               ELSE IF r = ArgBuf THEN arg
               ELSE <<>>]
  /\ Files = FilesInit
  /\ pc = [p \in Procs |-> "idle"]
  /\ key = [p \in Procs |-> ""]
  /\ got = [p \in Procs |-> Nil]
  /\ content = [p \in Procs |-> Nil]
  /\ patch = [p \in Procs |-> <<>>]
  /\ i = [p \in Procs |-> -1]
  /\ dup = [p \in Procs |-> Nil]
  /\ ret = [p \in Procs |-> Nil]
  /\ err = [p \in Procs |-> NoErr]
  /\ snap = [p \in Procs |-> <<>>]
  /\ calls = [p \in Procs |-> 0]

Init == InitWith(<<>>)

InitFn == \E arg \in ContentSet : InitWith(arg)

(***************************************************************************)
(* The operations.                                                         *)
(***************************************************************************)
\* v, ok := Files[n]
Get(p, n) ==
  /\ pc[p] = "idle"
  /\ calls[p] < MaxCalls
  /\ key' = [key EXCEPT ![p] = n]
  /\ IF n \in DOMAIN Files
     THEN /\ got' = [got EXCEPT ![p] = Files[n]]
          /\ pc' = [pc EXCEPT ![p] = "got"]
     ELSE /\ got' = [got EXCEPT ![p] = Nil]
          /\ pc' = [pc EXCEPT ![p] = "notfound"]
  /\ UNCHANGED <<heap, Files, content, patch, i, dup, ret, err, snap, calls>>

\* Patch without its first check: an empty patch is searched for and
\* applied like any other.
CallNoEmptyCheck(p, c, P) ==
  /\ content' = [content EXCEPT ![p] = c]
  /\ patch' = [patch EXCEPT ![p] = P]
  /\ snap' = [snap EXCEPT ![p] = heap[c]]
  /\ i' = [i EXCEPT ![p] = -1]
  /\ dup' = [dup EXCEPT ![p] = Nil]
  /\ err' = [err EXCEPT ![p] = NoErr]
  /\ ret' = [ret EXCEPT ![p] = Nil]
  /\ pc' = [pc EXCEPT ![p] = "search"]
  /\ UNCHANGED <<heap, Files, key, got, calls>>

\* Patch(c, P) is entered: "if len(patch) == 0 { return content, nil }".
Call(p, c, P) ==
  /\ content' = [content EXCEPT ![p] = c]
  /\ patch' = [patch EXCEPT ![p] = P]
  /\ snap' = [snap EXCEPT ![p] = heap[c]]
  /\ i' = [i EXCEPT ![p] = -1]
  /\ dup' = [dup EXCEPT ![p] = Nil]
  /\ err' = [err EXCEPT ![p] = NoErr]
  /\ IF Len(P) = 0
     THEN /\ ret' = [ret EXCEPT ![p] = c]
          /\ pc' = [pc EXCEPT ![p] = "done"]
     ELSE /\ ret' = [ret EXCEPT ![p] = Nil]
          /\ pc' = [pc EXCEPT ![p] = "search"]
  /\ UNCHANGED <<heap, Files, key, got, calls>>

\* A caller passes the slice it looked up.
PatchGot(p, P) ==
  /\ pc[p] = "got"
  /\ Call(p, got[p], P)

\* A caller passes a slice of its own.
PatchArg(p, P) ==
  /\ pc[p] = "idle"
  /\ Call(p, ArgBuf, P)

\* len(patch) >= len(magicString)
TooLongOffByOne(P) == Len(P) >= Len(magicString)

\* len(patch) > len(magicString)
TooLong(P) == Len(P) > Len(magicString)

\* The search with "if i == 0" in the place of "if i == -1".
SearchWrongSentinel(p) ==
  /\ pc[p] = "search"
  /\ LET idx == Index(heap[content[p]], magicString)
     IN  /\ i' = [i EXCEPT ![p] = idx]
         /\ IF idx = 0
            THEN /\ ret' = [ret EXCEPT ![p] = content[p]]
                 /\ err' = [err EXCEPT ![p] = NoErr]
                 /\ pc' = [pc EXCEPT ![p] = "done"]
            ELSE IF TooLong(patch[p])
            THEN /\ ret' = [ret EXCEPT ![p] = Nil]
                 /\ err' = [err EXCEPT ![p] = ErrPatchTooLong]
                 /\ pc' = [pc EXCEPT ![p] = "done"]
            ELSE /\ UNCHANGED <<ret, err>>
                 /\ pc' = [pc EXCEPT ![p] = "alloc"]
  /\ UNCHANGED <<heap, Files, key, got, content, patch, dup, snap, calls>>

\* The search with the length of the patch checked before the magic string
\* is looked for.
SearchLenFirst(p) ==
  /\ pc[p] = "search"
  /\ LET idx == Index(heap[content[p]], magicString)
     IN  /\ i' = [i EXCEPT ![p] = idx]
         /\ IF TooLong(patch[p])
            THEN /\ ret' = [ret EXCEPT ![p] = Nil]
                 /\ err' = [err EXCEPT ![p] = ErrPatchTooLong]
                 /\ pc' = [pc EXCEPT ![p] = "done"]
            ELSE IF idx = -1
            THEN /\ ret' = [ret EXCEPT ![p] = content[p]]
                 /\ err' = [err EXCEPT ![p] = NoErr]
                 /\ pc' = [pc EXCEPT ![p] = "done"]
            ELSE /\ UNCHANGED <<ret, err>>
                 /\ pc' = [pc EXCEPT ![p] = "alloc"]
  /\ UNCHANGED <<heap, Files, key, got, content, patch, dup, snap, calls>>

\* i := bytes.Index(content, magicString), the return when it is -1, and
\* the return when the patch is too long.
Search(p) ==
  /\ pc[p] = "search"
  /\ LET idx == Index(heap[content[p]], magicString)
     IN  /\ i' = [i EXCEPT ![p] = idx]
         /\ IF idx = -1
            THEN /\ ret' = [ret EXCEPT ![p] = content[p]]
                 /\ err' = [err EXCEPT ![p] = NoErr]
                 /\ pc' = [pc EXCEPT ![p] = "done"]
            ELSE IF TooLong(patch[p])
            THEN /\ ret' = [ret EXCEPT ![p] = Nil]
                 /\ err' = [err EXCEPT ![p] = ErrPatchTooLong]
                 /\ pc' = [pc EXCEPT ![p] = "done"]
            ELSE /\ UNCHANGED <<ret, err>>
                 /\ pc' = [pc EXCEPT ![p] = "alloc"]
  /\ UNCHANGED <<heap, Files, key, got, content, patch, dup, snap, calls>>

\* dup := content: the patch is applied in place.
AllocAlias(p) ==
  /\ pc[p] = "alloc"
  /\ dup' = [dup EXCEPT ![p] = content[p]]
  /\ pc' = [pc EXCEPT ![p] = "copy"]
  /\ UNCHANGED <<heap, Files, key, got, content, patch, i, ret, err, snap, calls>>

\* dup := make([]byte, len(content))
Alloc(p) ==
  /\ pc[p] = "alloc"
  /\ dup' = [dup EXCEPT ![p] = DupBuf(p)]
  /\ heap' = [heap EXCEPT ![DupBuf(p)] = Make(Len(heap[content[p]]))]
  /\ pc' = [pc EXCEPT ![p] = "copy"]
  /\ UNCHANGED <<Files, key, got, content, patch, i, ret, err, snap, calls>>

\* copy(dup, content)
CopyContent(p) ==
  /\ pc[p] = "copy"
  /\ heap' = [heap EXCEPT ![dup[p]] = Copy(heap[dup[p]], 0, heap[content[p]])]
  /\ pc' = [pc EXCEPT ![p] = "pad"]
  /\ UNCHANGED <<Files, key, got, content, patch, i, dup, ret, err, snap, calls>>

\* The padding copy left out.
PadSkipped(p) ==
  /\ pc[p] = "pad"
  /\ pc' = [pc EXCEPT ![p] = "overwrite"]
  /\ UNCHANGED <<heap, Files, key, got, content, patch, i, dup, ret, err, snap, calls>>

\* copy(dup[i:], magicStringPadding)
Pad(p) ==
  /\ pc[p] = "pad"
  /\ heap' = [heap EXCEPT ![dup[p]] = Copy(heap[dup[p]], i[p], magicStringPadding)]
  /\ pc' = [pc EXCEPT ![p] = "overwrite"]
  /\ UNCHANGED <<Files, key, got, content, patch, i, dup, ret, err, snap, calls>>

\* copy(dup[i:], patch); return dup, nil
Overwrite(p) ==
  /\ pc[p] = "overwrite"
  /\ heap' = [heap EXCEPT ![dup[p]] = Copy(heap[dup[p]], i[p], patch[p])]
  /\ ret' = [ret EXCEPT ![p] = dup[p]]
  /\ err' = [err EXCEPT ![p] = NoErr]
  /\ pc' = [pc EXCEPT ![p] = "done"]
  /\ UNCHANGED <<Files, key, got, content, patch, i, dup, snap, calls>>

\* The caller writes a byte into the slice Patch returned, at its first or
\* at its last offset: r[k] = b.
Write(p) ==
  /\ pc[p] = "done"
  /\ ret[p] # Nil
  /\ \E k \in {0, Len(heap[ret[p]]) - 1}, b \in WriteBytes :
        /\ k >= 0
        /\ heap' = [heap EXCEPT ![ret[p]] = [@ EXCEPT ![k + 1] = b]]
  /\ pc' = [pc EXCEPT ![p] = "written"]
  /\ UNCHANGED <<Files, key, got, content, patch, i, dup, ret, err, snap, calls>>

\* The caller is through with the request: its locals go out of scope and
\* the buffer Patch allocated for it is garbage.
Finish(p) ==
  /\ pc[p] \in {"notfound", "done", "written"}
  /\ heap' = [heap EXCEPT ![DupBuf(p)] = <<>>]
  /\ pc' = [pc EXCEPT ![p] = "idle"]
  /\ key' = [key EXCEPT ![p] = ""]
  /\ got' = [got EXCEPT ![p] = Nil]
  /\ content' = [content EXCEPT ![p] = Nil]
  /\ patch' = [patch EXCEPT ![p] = <<>>]
  /\ i' = [i EXCEPT ![p] = -1]
  /\ dup' = [dup EXCEPT ![p] = Nil]
  /\ ret' = [ret EXCEPT ![p] = Nil]
  /\ err' = [err EXCEPT ![p] = NoErr]
  /\ snap' = [snap EXCEPT ![p] = <<>>]
  /\ calls' = [calls EXCEPT ![p] = calls[p] + 1]
  /\ UNCHANGED Files

\* Patch as one sequential computation: what a call returns when nothing
\* else runs.  nil: the result is the nil slice; same: it is content itself.
PatchBytes(c, P) ==
  IF Len(P) = 0
  THEN [nil |-> FALSE, same |-> TRUE, bytes |-> c, err |-> NoErr]
  ELSE LET idx == Index(c, magicString)
       IN  IF idx = -1
           THEN [nil |-> FALSE, same |-> TRUE, bytes |-> c, err |-> NoErr]
           ELSE IF TooLong(P)
           THEN [nil |-> TRUE, same |-> FALSE, bytes |-> <<>>, err |-> ErrPatchTooLong]
           ELSE LET d0 == Make(Len(c))
                    d1 == Copy(d0, 0, c)
                    d2 == Copy(d1, idx, magicStringPadding)
                    d3 == Copy(d2, idx, P)
                IN  [nil |-> FALSE, same |-> FALSE, bytes |-> d3, err |-> NoErr]

(***************************************************************************)
(* The specifications.                                                     *)
(***************************************************************************)
\* One caller serves requests one after the other: it looks a name up,
\* patches what it found, may write into what Patch returned, and goes on.
Next ==
  \/ \E n \in LookupNames : Get(Caller, n)
  \/ \E P \in Patches : PatchGot(Caller, P)
  \/ Search(Caller)
  \/ Alloc(Caller)
  \/ CopyContent(Caller)
  \/ Pad(Caller)
  \/ Overwrite(Caller)
  \/ Write(Caller)
  \/ Finish(Caller)

Spec == Init /\ [][Next]_vars

\* Patch as a function: one call on any content of ContentSet, and a write
\* into what it returned.
NextFn ==
  \/ \E P \in Patches : PatchArg(Caller, P)
  \/ Search(Caller)
  \/ Alloc(Caller)
  \/ CopyContent(Caller)
  \/ Pad(Caller)
  \/ Overwrite(Caller)
  \/ Write(Caller)

SpecFn == InitFn /\ [][NextFn]_vars

\* The callers run Patch at the same time on the binaries they looked up,
\* one statement at a time, and write nothing.
NextConc ==
  \E p \in Procs :
    \/ \E n \in ConcNames : Get(p, n)
    \/ \E P \in Patches : PatchGot(p, P)
    \/ Search(p)
    \/ Alloc(p)
    \/ CopyContent(p)
    \/ Pad(p)
    \/ Overwrite(p)

SpecConc == Init /\ [][NextConc]_vars

(***************************************************************************)
(* What the claims speak of.                                               *)
(***************************************************************************)
\* The magic string stands in c at offset k.
MarkerAt(c, k) == \A j \in 1..Len(magicString) : c[k + j] = magicString[j]

\* The offsets of c at which the magic string stands.
Occurrences(c) == {k \in 0..(Len(c) - Len(magicString)) : MarkerAt(c, k)}

Leftmost(c) == CHOOSE k \in Occurrences(c) : \A m \in Occurrences(c) : k <= m

\* The call of p has returned and the caller has not touched the result yet.
Returned(p) == pc[p] = "done"

\* The call of p took the path that patches: a patch, and a magic string to
\* replace, and room for the patch.
Patching(p) ==
  /\ Len(patch[p]) > 0
  /\ Len(patch[p]) <= Len(magicString)
  /\ Occurrences(snap[p]) # {}

\* What the call of p returned, in the form of PatchBytes.
Outcome(p) ==
  [nil   |-> ret[p] = Nil,
   same  |-> ret[p] = content[p],
   bytes |-> IF ret[p] = Nil THEN <<>> ELSE heap[ret[p]],
   err   |-> err[p]]

\* The names the registry is to hold.
SevenNames ==
  {"undionly.kpxe", "ipxe.efi", "snp.efi", "ipxe.iso",
   "rk3588-rock-5b.dtb", "rk3566-orangepi-3b.dtb", "meson-sm1-odroid-hc4.dtb"}

(***************************************************************************)
(* The claims.                                                             *)
(***************************************************************************)
\* C1: for a content C with the magic string, leftmost at offset o, and a
\* patch P of 1..len(magicString) bytes, Patch returns no error and a result
\* R of the length of C with R[0:o] = C[0:o], R[o:o+len(P)] = P, spaces up
\* to o+len(magicString), and R[o+len(magicString):] = C[o+len(magicString):].
PatchedRegionLaidOut ==
  \A p \in Procs :
    (Returned(p) /\ Patching(p)) =>
      /\ err[p] = NoErr
      /\ ret[p] # Nil
      /\ LET C == snap[p]
             P == patch[p]
             o == Leftmost(C)
             R == heap[ret[p]]
             m == Len(magicString)
         IN  /\ Len(R) = Len(C)
             /\ SubSeq(R, 1, o) = SubSeq(C, 1, o)
             /\ SubSeq(R, o + 1, o + Len(P)) = P
             /\ \A k \in (o + Len(P) + 1)..(o + m) : R[k] = PaddingByte
             /\ SubSeq(R, o + m + 1, Len(R)) = SubSeq(C, o + m + 1, Len(C))

\* C1 happens: a patch shorter than the magic string has been applied to a
\* content that has bytes before and after the magic string.
PatchedRegionLaidOutWitness ==
  \E p \in Procs :
    /\ Returned(p)
    /\ Patching(p)
    /\ Len(patch[p]) < Len(magicString)
    /\ Leftmost(snap[p]) > 0
    /\ Leftmost(snap[p]) + Len(magicString) < Len(snap[p])
    /\ ret[p] = dup[p]
    /\ ret[p] # Nil

\* C2: for a content with the magic string, a patch longer than the magic
\* string fails with ErrPatchTooLong and a nil result, and the limit is
\* exact: a patch of len(magicString) bytes is applied, one of
\* len(magicString)+1 bytes fails.
TooLongFailsAtExactLimit ==
  \A p \in Procs :
    (Returned(p) /\ Occurrences(snap[p]) # {}) =>
      /\ Len(patch[p]) > Len(magicString) =>
           (err[p] = ErrPatchTooLong /\ ret[p] = Nil)
      /\ Len(patch[p]) = Len(magicString) =>
           /\ err[p] = NoErr
           /\ ret[p] # Nil
           /\ SubSeq(heap[ret[p]], Leftmost(snap[p]) + 1,
                     Leftmost(snap[p]) + Len(magicString)) = patch[p]

\* C2 happens: a patch of len(magicString)+1 bytes has failed on a content
\* with the magic string.
TooLongFailsAtExactLimitWitness ==
  \E p \in Procs :
    /\ Returned(p)
    /\ Occurrences(snap[p]) # {}
    /\ Len(patch[p]) = Len(magicString) + 1
    /\ err[p] = ErrPatchTooLong
    /\ ret[p] = Nil

\* C3: for every content, with or without the magic string, Patch with the
\* empty patch returns no error and the content itself: the same slice, its
\* bytes as they were, and no buffer allocated.
EmptyPatchReturnsContent ==
  \A p \in Procs :
    (Returned(p) /\ Len(patch[p]) = 0) =>
      /\ err[p] = NoErr
      /\ ret[p] = content[p]
      /\ heap[ret[p]] = snap[p]
      /\ dup[p] = Nil
      /\ heap[DupBuf(p)] = <<>>

\* C3 happens: the empty patch has been passed with a content that has the
\* magic string, which is still there.
EmptyPatchReturnsContentWitness ==
  \E p \in Procs :
    /\ Returned(p)
    /\ Len(patch[p]) = 0
    /\ Occurrences(snap[p]) # {}
    /\ ret[p] = content[p]
    /\ Occurrences(heap[ret[p]]) # {}

\* C4: for a content without the magic string and a patch of
\* 1..len(magicString) bytes, Patch returns no error and the content itself.
MarkerAbsentReturnsContent ==
  \A p \in Procs :
    (/\ Returned(p)
     /\ Occurrences(snap[p]) = {}
     /\ Len(patch[p]) > 0
     /\ Len(patch[p]) <= Len(magicString)) =>
      /\ err[p] = NoErr
      /\ ret[p] = content[p]
      /\ heap[ret[p]] = snap[p]

\* C4 happens: a patch has been passed with a content that is long enough
\* for the magic string and does not have it.
MarkerAbsentReturnsContentWitness ==
  \E p \in Procs :
    /\ Returned(p)
    /\ Occurrences(snap[p]) = {}
    /\ Len(snap[p]) > Len(magicString)
    /\ Len(patch[p]) > 0
    /\ Len(patch[p]) <= Len(magicString)
    /\ ret[p] = content[p]

\* C5: Patch writes nothing into its content, whatever the outcome, and
\* when it patches, the result is another array than the content: a write
\* of the caller into the result leaves the bytes of the content as they
\* were.
InputNeverWritten ==
  \A p \in Procs :
    /\ pc[p] \in {"search", "alloc", "copy", "pad", "overwrite", "done"} =>
         heap[content[p]] = snap[p]
    /\ (pc[p] \in {"done", "written"} /\ Patching(p)) =>
         /\ ret[p] # content[p]
         /\ heap[content[p]] = snap[p]

\* C5 happens: the caller has written into the result of a call that
\* patched.
InputNeverWrittenWitness ==
  \E p \in Procs :
    /\ pc[p] = "written"
    /\ Patching(p)
    /\ ret[p] = dup[p]
    /\ \E k \in 1..Len(heap[ret[p]]) :
         /\ heap[ret[p]][k] \in WriteBytes
         /\ snap[p][k] \notin WriteBytes

\* C6: when calls of Patch run at the same time on the shared binaries, in
\* any interleaving of their statements, no embedded binary is written, and
\* each call returns what it returns when it runs alone.
ConcurrentCallsIndependent ==
  /\ \A k \in 1..Len(FileEntries) : heap[<<"embed", k>>] = EmbeddedContent(k)
  /\ \A p \in Procs :
       Returned(p) => Outcome(p) = PatchBytes(snap[p], patch[p])

\* C6 happens: a call has patched a binary and returned while another call
\* on the same binary, with another patch, is between its copies.
ConcurrentCallsIndependentWitness ==
  \E p \in Procs : \E q \in Procs \ {p} :
    /\ Returned(p)
    /\ Patching(p)
    /\ ret[p] = dup[p]
    /\ pc[q] = "pad"
    /\ content[q] = content[p]
    /\ patch[q] # patch[p]

\* C7: the contents of the registry never change: after any lookups, calls
\* of Patch and writes of callers into what Patch returned, a lookup of each
\* name returns the bytes that were embedded.
RegistryContentNeverMutates ==
  \A n \in DOMAIN Files :
    \A k \in 1..Len(FileEntries) :
      FileEntries[k].name = n => heap[Files[n]] = EmbeddedContent(k)

\* C8 as stated: for every content, a patch longer than the magic string
\* fails with ErrPatchTooLong.
TooLongAlwaysFails ==
  \A p \in Procs :
    (Returned(p) /\ Len(patch[p]) > Len(magicString)) =>
      err[p] = ErrPatchTooLong

\* C8 as amended: Patch fails with ErrPatchTooLong exactly when the patch is
\* longer than the magic string and the content has the magic string, and
\* then it returns the nil slice; with a content without the magic string, a
\* patch longer than the magic string returns the content and no error.
TooLongFailsIffMarkerPresent ==
  \A p \in Procs :
    Returned(p) =>
      /\ err[p] = ErrPatchTooLong <=>
           (Len(patch[p]) > Len(magicString) /\ Occurrences(snap[p]) # {})
      /\ err[p] = ErrPatchTooLong => ret[p] = Nil
      /\ (Len(patch[p]) > Len(magicString) /\ Occurrences(snap[p]) = {}) =>
           (err[p] = NoErr /\ ret[p] = content[p])

\* C8 as amended happens: a patch longer than the magic string has been
\* passed with a content without the magic string.
TooLongFailsIffMarkerPresentWitness ==
  \E p \in Procs :
    /\ Returned(p)
    /\ Len(patch[p]) > Len(magicString)
    /\ Occurrences(snap[p]) = {}
    /\ Len(snap[p]) > 0
    /\ err[p] = NoErr
    /\ ret[p] = content[p]

\* C9: the registry holds exactly the seven names; a lookup of one of them
\* returns the binary bound to it, a lookup of any other name finds nothing,
\* and no lookup and no call of Patch adds, removes or rebinds a name.
RegistryNamesFixed ==
  /\ DOMAIN Files = SevenNames
  /\ Cardinality(DOMAIN Files) = 7
  /\ \A k \in 1..Len(FileEntries) : Files[FileEntries[k].name] = <<"embed", k>>
  /\ \A p \in Procs :
       /\ pc[p] = "got" => (key[p] \in SevenNames /\ got[p] = Files[key[p]])
       /\ pc[p] = "notfound" => (key[p] \notin SevenNames /\ got[p] = Nil)

\* C9 happens: after an earlier request, a name that is not registered is
\* looked up and not found.
RegistryNamesFixedWitness ==
  \E p \in Procs :
    /\ calls[p] > 0
    /\ pc[p] = "notfound"
    /\ key[p] \notin SevenNames

\* C10: when the content has the magic string at more than one offset, a
\* call that patches replaces the leftmost one only: every later magic
\* string stands in the result as it stood, and no byte outside the
\* leftmost one's range differs from the content.
OnlyLeftmostReplaced ==
  \A p \in Procs :
    (Returned(p) /\ Patching(p) /\ Cardinality(Occurrences(snap[p])) > 1) =>
      /\ err[p] = NoErr
      /\ ret[p] # Nil
      /\ LET C == snap[p]
             o == Leftmost(C)
             R == heap[ret[p]]
             m == Len(magicString)
         IN  /\ Len(R) = Len(C)
             /\ \A later \in Occurrences(C) \ {o} : MarkerAt(R, later)
             /\ \A k \in 1..Len(R) : (k <= o \/ k > o + m) => R[k] = C[k]
             /\ SubSeq(R, o + 1, o + Len(patch[p])) = patch[p]
             /\ ~ MarkerAt(R, o)

\* C10 happens: a content with the magic string at two offsets has been
\* patched.
OnlyLeftmostReplacedWitness ==
  \E p \in Procs :
    /\ Returned(p)
    /\ Patching(p)
    /\ Cardinality(Occurrences(snap[p])) > 1
    /\ ret[p] = dup[p]
    /\ Cardinality(Occurrences(heap[ret[p]])) = Cardinality(Occurrences(snap[p])) - 1

====
